---- MODULE Spec2Model ----
(***************************************************************************)
(* Pharos: a registry of observers (src/src/pharos.rs).  The registry      *)
(* holds `observers: Vec<Option<Sender>>`, `free_slots: Vec<usize>` and    *)
(* `state`.  Each subscription owns one channel; its sending half sits in   *)
(* a slot of `observers`, its receiving half (Events) is held by the       *)
(* subscriber.  A slot of the model carries the Sender together with the    *)
(* channel it writes to: once the registry drops the Sender, nothing the    *)
(* subscriber does with the receiving half reaches the registry again.      *)
(***************************************************************************)
EXTENDS Integers, Sequences, FiniteSets, TLC

\* ---- bounds of the model ------------------------------------------------
MaxSlots == 2     \* length observers may grow to
MaxQueue == 1     \* events an Unbounded channel holds before the model stops sending
MaxCap == 1       \* largest Channel::Bounded(queue_size) requested

\* The event type of the tests: Pharos::<bool>.
Events == BOOLEAN

\* Filters a subscriber may attach: accept everything, or only `true`.
Filters == {Events, {TRUE}}

\* Channel::Unbounded | Channel::Bounded(queue_size)
ChannelKinds ==
    {[kind |-> "Unbounded", size |-> 0]} \cup
    {[kind |-> "Bounded", size |-> n] : n \in 0..MaxCap}

ObserveConfigs == [channel : ChannelKinds, filter : Filters]

\* Option::None in a slot; Some(sender) is the record Events::new builds.
None == [some |-> FALSE]

is_some(opt) == opt.some

VARIABLES
    observers,   \* Pharos.observers: sequence of None | sender
    free_slots,  \* Pharos.free_slots: sequence of 0-based slot indices
    state,       \* Pharos.state: "Ready" | "Closed"
    last         \* the last call made and what it returned

vars == <<observers, free_slots, state, last>>

\* ---- the channel pair: Events (receiver) and Sender ----------------------

\* Events::new(options): a fresh pair, empty queue, both halves open.
Events_new(options) ==
    [some |-> TRUE, channel |-> options.channel, filter |-> options.filter,
     queue |-> <<>>, rx |-> "open", tx |-> "open"]

\* Sender::is_closed: the receiver closed or dropped, or the sender was closed.
Sender_is_closed(s) == s.rx # "open" \/ s.tx = "closed"

\* A Bounded(n) channel is full once n events are queued and unread.
Sender_is_full(s) ==
    s.channel.kind = "Bounded" /\ Len(s.queue) >= s.channel.size

\* Sender::filter
Sender_filter(s, evt) == evt \in s.filter

\* Sender::poll_ready: Err when disconnected, Pending when full, else Ok.
Sender_poll_ready(s) ==
    IF Sender_is_closed(s) THEN "Err"
    ELSE IF Sender_is_full(s) THEN "Pending"
    ELSE "Ok"

\* Sender::start_send: Err when disconnected or full, else the event is queued.
Sender_start_send_ok(s) == ~Sender_is_closed(s) /\ ~Sender_is_full(s)

Sender_start_send(s, evt) == [s EXCEPT !.queue = Append(@, evt)]

\* Sender::poll_flush: same tri-state as poll_ready.
Sender_poll_flush(s) ==
    IF Sender_is_closed(s) THEN "Err"
    ELSE IF Sender_is_full(s) THEN "Pending"
    ELSE "Ok"

\* Sender::poll_close: the sending half is closed; the stream ends once drained.
Sender_poll_close(s) == [s EXCEPT !.tx = "closed"]

\* ---- Pharos ------------------------------------------------------------

\* The last call: what was called, what it returned, the event sent or read, a
\* count, and whether readiness stands (see Established).
Call(op, res, evt, n) ==
    [op |-> op, res |-> res, evt |-> evt, n |-> n, ready |-> FALSE]

\* Readiness stands: a ready-check returned ready and nothing but reads of the
\* subscribers came after it.  A dispatch records whether it was made so.
Established == last.ready /\ last.op \in {"poll_ready", "poll_next"}

\* The populated slots: their subscribers are the ones that still reach the registry.
Held == {i \in 1..Len(observers) : is_some(observers[i])}

\* Pharos::new
Init ==
    /\ observers = <<>>
    /\ free_slots = <<>>
    /\ state = "Ready"
    /\ last = Call("new", "Ok", FALSE, 0)

\* Pharos::storage_len
storage_len == Len(observers)

\* Mutation: the reused index is read but left on free_slots.
observe_store_peek(obs, free, sender) ==
    IF free # <<>>
    THEN LET i == free[Len(free)]
         IN [obs |-> [obs EXCEPT ![i + 1] = sender], free |-> free]
    ELSE [obs |-> Append(obs, sender), free |-> free]

\* Mutation: the oldest freed slot is reused instead of the last one pushed.
observe_store_fifo(obs, free, sender) ==
    IF free # <<>>
    THEN LET i == free[1]
         IN [obs |-> [obs EXCEPT ![i + 1] = sender], free |-> Tail(free)]
    ELSE [obs |-> Append(obs, sender), free |-> free]

\* observe, lines 147-153: reuse the last freed slot, else push.
observe_store(obs, free, sender) ==
    IF free # <<>>
    THEN LET i == free[Len(free)]
         IN [obs |-> [obs EXCEPT ![i + 1] = sender],
             free |-> SubSeq(free, 1, Len(free) - 1)]
    ELSE [obs |-> Append(obs, sender), free |-> free]

\* Mutation: the Closed check of observe is missing.
observe_check_open(st, options) ==
    IF options.channel.kind = "Bounded" /\ options.channel.size < 1
    THEN "MinChannelSizeOne"
    ELSE "Ok"

\* Mutation: observe without the check of the channel size.
observe_check_nomin(st, options) ==
    IF st = "Closed" THEN "Closed" ELSE "Ok"

\* The error observe returns before touching anything, or "Ok".
observe_check(st, options) ==
    IF st = "Closed" THEN "Closed"
    ELSE IF options.channel.kind = "Bounded" /\ options.channel.size < 1
    THEN "MinChannelSizeOne"
    ELSE "Ok"

\* Mutation: the channel is created and stored before the checks are made.
observe_eager(options) ==
    LET res == observe_check(state, options)
        st  == observe_store(observers, free_slots, Events_new(options))
    IN /\ free_slots # <<>> \/ Len(observers) < MaxSlots
       /\ observers' = st.obs
       /\ free_slots' = st.free
       /\ last' = Call("observe", res, FALSE, 0)
       /\ UNCHANGED state

\* Pharos::observe
observe(options) ==
    LET res == observe_check(state, options) IN
    IF res # "Ok"
    THEN /\ last' = Call("observe", res, FALSE, 0)
         /\ UNCHANGED <<observers, free_slots, state>>
    ELSE /\ free_slots # <<>> \/ Len(observers) < MaxSlots
         /\ LET st == observe_store(observers, free_slots, Events_new(options))
            IN /\ observers' = st.obs
               /\ free_slots' = st.free
         /\ last' = Call("observe", "Ok", FALSE, 0)
         /\ UNCHANGED state

\* Mutation: the index of a closed observer is pushed, the slot is not cleared.
num_observers_step_keep(i, acc) ==
    LET opt == acc.obs[i + 1] IN
    IF ~is_some(opt) THEN acc
    ELSE IF ~Sender_is_closed(opt)
    THEN [acc EXCEPT !.count = @ + 1]
    ELSE [acc EXCEPT !.free = Append(@, i)]

\* Mutation: every populated slot is counted, closed or not.
num_observers_step_countall(i, acc) ==
    LET opt == acc.obs[i + 1] IN
    IF ~is_some(opt) THEN acc
    ELSE IF ~Sender_is_closed(opt)
    THEN [acc EXCEPT !.count = @ + 1]
    ELSE [acc EXCEPT !.count = @ + 1, !.free = Append(@, i), !.obs[i + 1] = None]

\* Mutation: a closed observer in the last slot is popped off the storage.
num_observers_step_compact(i, acc) ==
    LET opt == acc.obs[i + 1] IN
    IF ~is_some(opt) THEN acc
    ELSE IF ~Sender_is_closed(opt)
    THEN [acc EXCEPT !.count = @ + 1]
    ELSE IF i + 1 = Len(acc.obs)
    THEN [acc EXCEPT !.obs = SubSeq(@, 1, i)]
    ELSE [acc EXCEPT !.free = Append(@, i), !.obs[i + 1] = None]

\* One iteration of the loop of num_observers over slot i.
num_observers_step(i, acc) ==
    LET opt == acc.obs[i + 1] IN
    IF ~is_some(opt) THEN acc
    ELSE IF ~Sender_is_closed(opt)
    THEN [acc EXCEPT !.count = @ + 1]
    ELSE [acc EXCEPT !.free = Append(@, i), !.obs[i + 1] = None]

RECURSIVE num_observers_loop(_, _)
num_observers_loop(i, acc) ==
    IF i >= Len(acc.obs) THEN acc
    ELSE num_observers_loop(i + 1, num_observers_step(i, acc))

\* Pharos::num_observers
num_observers ==
    LET r == num_observers_loop(0,
                 [obs |-> observers, free |-> free_slots, count |-> 0])
    IN /\ observers' = r.obs
       /\ free_slots' = r.free
       /\ last' = Call("num_observers", "Ok", FALSE, r.count)
       /\ UNCHANGED state

\* Mutation: a sender that is not ready is skipped instead of returning Pending.
poll_ready_step_skip(i, acc) ==
    LET opt == acc.obs[i + 1] IN
    IF ~is_some(opt) THEN acc
    ELSE IF Sender_poll_ready(opt) = "Err" THEN [acc EXCEPT !.obs[i + 1] = None]
    ELSE acc

\* Mutation: the error of a disconnected sender is returned by poll_ready.
poll_ready_step_fail(i, acc) ==
    LET opt == acc.obs[i + 1] IN
    IF ~is_some(opt) THEN acc
    ELSE LET r == Sender_poll_ready(opt) IN
         IF r = "Pending" THEN [acc EXCEPT !.res = "Pending"]
         ELSE IF r = "Err" THEN [acc EXCEPT !.res = "Err"]
         ELSE acc

\* Mutation: a disconnected sender is left in its slot by poll_ready.
poll_ready_step_ignore(i, acc) ==
    LET opt == acc.obs[i + 1] IN
    IF ~is_some(opt) THEN acc
    ELSE IF Sender_poll_ready(opt) = "Pending" THEN [acc EXCEPT !.res = "Pending"]
    ELSE acc

\* One iteration of the loop of poll_ready over slot i (lines 175-183).
poll_ready_step(i, acc) ==
    LET opt == acc.obs[i + 1] IN
    IF ~is_some(opt) THEN acc
    ELSE LET r == Sender_poll_ready(opt) IN
         IF r = "Pending" THEN [acc EXCEPT !.res = "Pending"]
         ELSE IF r = "Err" THEN [acc EXCEPT !.obs[i + 1] = None]
         ELSE acc

\* Mutation: the loop of poll_ready goes on behind a sender that is not ready.
RECURSIVE poll_ready_loop_all(_, _)
poll_ready_loop_all(i, acc) ==
    IF i >= Len(acc.obs) THEN acc
    ELSE poll_ready_loop_all(i + 1, poll_ready_step(i, acc))

\* The loop of poll_ready: ready!() returns Pending from the first slot not ready.
RECURSIVE poll_ready_loop(_, _)
poll_ready_loop(i, acc) ==
    IF i >= Len(acc.obs) \/ acc.res = "Pending" THEN acc
    ELSE poll_ready_loop(i + 1, poll_ready_step(i, acc))

\* The state check that opens poll_ready, start_send and poll_flush.
closed_check(st) == IF st = "Closed" THEN "Closed" ELSE "Ok"

\* Pharos::poll_ready
poll_ready ==
    IF closed_check(state) # "Ok"
    THEN /\ last' = Call("poll_ready", "Closed", FALSE, 0)
         /\ UNCHANGED <<observers, free_slots, state>>
    ELSE LET r == poll_ready_loop(0, [obs |-> observers, res |-> "Ok"])
         IN /\ observers' = r.obs
            /\ last' = [Call("poll_ready", r.res, FALSE, 0)
                           EXCEPT !.ready = (r.res = "Ok")]
            /\ UNCHANGED <<free_slots, state>>

\* Mutation: the filter is not consulted, every live observer is sent the event.
start_send_step_unfiltered(i, evt, acc) ==
    LET opt == acc.obs[i + 1] IN
    IF ~is_some(opt) THEN acc
    ELSE IF Sender_is_closed(opt)
    THEN [acc EXCEPT !.free = Append(@, i), !.obs[i + 1] = None]
    ELSE IF Sender_start_send_ok(opt)
    THEN [acc EXCEPT !.obs[i + 1] = Sender_start_send(@, evt)]
    ELSE [acc EXCEPT !.free = Append(@, i), !.obs[i + 1] = None]

\* Mutation: an observer whose filter rejects the event is removed like a failed one.
start_send_step_evict(i, evt, acc) ==
    LET opt == acc.obs[i + 1] IN
    IF ~is_some(opt) THEN acc
    ELSE IF Sender_is_closed(opt)
    THEN [acc EXCEPT !.free = Append(@, i), !.obs[i + 1] = None]
    ELSE IF Sender_filter(opt, evt) /\ Sender_start_send_ok(opt)
    THEN [acc EXCEPT !.obs[i + 1] = Sender_start_send(@, evt)]
    ELSE [acc EXCEPT !.free = Append(@, i), !.obs[i + 1] = None]

\* Mutation: an accepted event is sent to the observer twice.
start_send_step_twice(i, evt, acc) ==
    LET opt == acc.obs[i + 1] IN
    IF ~is_some(opt) THEN acc
    ELSE IF Sender_is_closed(opt)
    THEN [acc EXCEPT !.free = Append(@, i), !.obs[i + 1] = None]
    ELSE IF Sender_filter(opt, evt)
    THEN IF Sender_start_send_ok(opt)
         THEN [acc EXCEPT
                  !.obs[i + 1] = Sender_start_send(Sender_start_send(@, evt), evt)]
         ELSE [acc EXCEPT !.free = Append(@, i), !.obs[i + 1] = None]
    ELSE acc

\* Mutation: an observer whose channel is full is kept, the event is skipped.
start_send_step_retain(i, evt, acc) ==
    LET opt == acc.obs[i + 1] IN
    IF ~is_some(opt) THEN acc
    ELSE IF Sender_is_closed(opt)
    THEN [acc EXCEPT !.free = Append(@, i), !.obs[i + 1] = None]
    ELSE IF Sender_filter(opt, evt) /\ Sender_start_send_ok(opt)
    THEN [acc EXCEPT !.obs[i + 1] = Sender_start_send(@, evt)]
    ELSE acc

\* One iteration of the loop of start_send over slot i (lines 199-218).
start_send_step(i, evt, acc) ==
    LET opt == acc.obs[i + 1] IN
    IF ~is_some(opt) THEN acc
    ELSE IF Sender_is_closed(opt)
    THEN [acc EXCEPT !.free = Append(@, i), !.obs[i + 1] = None]
    ELSE IF Sender_filter(opt, evt)
    THEN IF Sender_start_send_ok(opt)
         THEN [acc EXCEPT !.obs[i + 1] = Sender_start_send(@, evt)]
         ELSE [acc EXCEPT !.free = Append(@, i), !.obs[i + 1] = None]
    ELSE acc

\* Mutation: the loop ends at the first observer it removes, as `?` would.
RECURSIVE start_send_loop_abort(_, _, _)
start_send_loop_abort(i, evt, acc) ==
    IF i >= Len(acc.obs) THEN acc
    ELSE LET nxt == start_send_step(i, evt, acc) IN
         IF is_some(acc.obs[i + 1]) /\ ~is_some(nxt.obs[i + 1]) THEN nxt
         ELSE start_send_loop_abort(i + 1, evt, nxt)

\* The loop of start_send: every slot is visited, no early return.
RECURSIVE start_send_loop(_, _, _)
start_send_loop(i, evt, acc) ==
    IF i >= Len(acc.obs) THEN acc
    ELSE start_send_loop(i + 1, evt, start_send_step(i, evt, acc))

\* The model stops sending once an Unbounded queue that would take evt holds maxq.
SendFits(evt, maxq) ==
    \A i \in 1..Len(observers) :
        LET opt == observers[i] IN
        (is_some(opt) /\ opt.channel.kind = "Unbounded"
            /\ ~Sender_is_closed(opt) /\ Sender_filter(opt, evt))
        => Len(opt.queue) < maxq

\* The populated slots whose sender refuses evt at line 209: it is not closed, its
\* filter accepts evt and its channel is full.
Refusing(evt) ==
    {i \in Held : /\ ~Sender_is_closed(observers[i])
                  /\ Sender_filter(observers[i], evt)
                  /\ ~Sender_start_send_ok(observers[i])}

\* Pharos::start_send, sent while the Unbounded queues hold less than maxq; last.n
\* is the number of senders that refused the event.
start_send_within(evt, maxq) ==
    IF closed_check(state) # "Ok"
    THEN /\ last' = Call("start_send", "Closed", evt, 0)
         /\ UNCHANGED <<observers, free_slots, state>>
    ELSE /\ SendFits(evt, maxq)
         /\ LET r == start_send_loop(0, evt, [obs |-> observers, free |-> free_slots])
            IN /\ observers' = r.obs
               /\ free_slots' = r.free
         /\ last' = [Call("start_send", "Ok", evt, Cardinality(Refusing(evt)))
                        EXCEPT !.ready = Established]
         /\ UNCHANGED state

\* Pharos::start_send
start_send(evt) == start_send_within(evt, MaxQueue)

\* One iteration of the loop of poll_flush over slot i (lines 236-247).
poll_flush_step(i, acc) ==
    LET opt == acc.obs[i + 1] IN
    IF ~is_some(opt) THEN acc
    ELSE LET r == Sender_poll_flush(opt) IN
         IF r = "Pending" THEN [acc EXCEPT !.pending = TRUE]
         ELSE IF r = "Ok" THEN acc
         ELSE [acc EXCEPT !.free = Append(@, i), !.obs[i + 1] = None]

\* Mutation: the loop of poll_flush returns at the first sender still draining.
RECURSIVE poll_flush_loop_short(_, _)
poll_flush_loop_short(i, acc) ==
    IF i >= Len(acc.obs) \/ acc.pending THEN acc
    ELSE poll_flush_loop_short(i + 1, poll_flush_step(i, acc))

RECURSIVE poll_flush_loop(_, _)
poll_flush_loop(i, acc) ==
    IF i >= Len(acc.obs) THEN acc
    ELSE poll_flush_loop(i + 1, poll_flush_step(i, acc))

\* Pharos::poll_flush
poll_flush ==
    IF closed_check(state) # "Ok"
    THEN /\ last' = Call("poll_flush", "Closed", FALSE, 0)
         /\ UNCHANGED <<observers, free_slots, state>>
    ELSE LET r == poll_flush_loop(0,
                      [obs |-> observers, free |-> free_slots, pending |-> FALSE])
         IN /\ observers' = r.obs
            /\ free_slots' = r.free
            /\ last' = Call("poll_flush", IF r.pending THEN "Pending" ELSE "Ok", FALSE, 0)
            /\ UNCHANGED state

\* Mutation: the senders are left open by poll_close.
poll_close_step_open(i, errs, acc) ==
    LET opt == acc.obs[i + 1] IN
    IF is_some(opt) /\ i \in errs
    THEN [acc EXCEPT !.free = Append(@, i), !.obs[i + 1] = None]
    ELSE acc

\* One iteration of the loop of poll_close over slot i (lines 270-278); errs holds
\* the slots whose sender answers its close with an error.
poll_close_step(i, errs, acc) ==
    LET opt == acc.obs[i + 1] IN
    IF ~is_some(opt) THEN acc
    ELSE IF i \in errs
    THEN [acc EXCEPT !.free = Append(@, i), !.obs[i + 1] = None]
    ELSE [acc EXCEPT !.obs[i + 1] = Sender_poll_close(@)]

RECURSIVE poll_close_loop(_, _, _)
poll_close_loop(i, errs, acc) ==
    IF i >= Len(acc.obs) THEN acc
    ELSE poll_close_loop(i + 1, errs, poll_close_step(i, errs, acc))

\* Slots whose close may fail: populated, the receiving half already gone.
CloseMayFail ==
    {i \in 0..(Len(observers) - 1) :
        is_some(observers[i + 1]) /\ observers[i + 1].rx # "open"}

\* Mutation: poll_close runs its loop again on a registry that is already Closed.
poll_close_again ==
    \E errs \in SUBSET CloseMayFail :
        LET r == poll_close_loop(0, errs, [obs |-> observers, free |-> free_slots])
        IN /\ state' = "Closed"
           /\ observers' = r.obs
           /\ free_slots' = r.free
           /\ last' = Call("poll_close", "Ok", FALSE, Cardinality(Held))

\* Pharos::poll_close; last.n is the number of senders it asked to close.
poll_close ==
    IF state = "Closed"
    THEN /\ last' = Call("poll_close", "Ok", FALSE, 0)
         /\ UNCHANGED <<observers, free_slots, state>>
    ELSE \E errs \in SUBSET CloseMayFail :
            LET r == poll_close_loop(0, errs, [obs |-> observers, free |-> free_slots])
            IN /\ state' = "Closed"
               /\ observers' = r.obs
               /\ free_slots' = r.free
               /\ last' = Call("poll_close", "Ok", FALSE, Cardinality(Held))

\* ---- the subscriber's side: Events --------------------------------------

\* Events::poll_next: take the oldest queued event and return it.
Events_poll_next(i) ==
    /\ observers[i].rx = "open"
    /\ observers[i].queue # <<>>
    /\ observers' = [observers EXCEPT ![i].queue = Tail(@)]
    /\ last' = [Call("poll_next", "Ok", Head(observers[i].queue), 0)
                   EXCEPT !.ready = Established]
    /\ UNCHANGED <<free_slots, state>>

\* Events::close: the receiving half is closed.  The registry only ever asks a
\* closed channel is_closed, so the model stops tracking what was queued.
Events_close(i) ==
    /\ observers[i].rx = "open"
    /\ observers' = [observers EXCEPT ![i].rx = "closed", ![i].queue = <<>>]
    /\ last' = Call("close", "Ok", FALSE, 0)
    /\ UNCHANGED <<free_slots, state>>

\* Mutation: dropping the handle unsubscribes at once: the slot is emptied and its
\* index recorded free.
Events_drop_unsubscribe(i) ==
    /\ observers[i].rx = "open"
    /\ observers' = [observers EXCEPT ![i] = None]
    /\ free_slots' = Append(free_slots, i - 1)
    /\ last' = Call("drop", "Ok", FALSE, 0)
    /\ UNCHANGED state

\* drop(events): the receiving half is gone together with what was queued, which
\* closes the channel as close does.  Dropping a handle that was closed before
\* changes nothing the registry or the channel can tell, and is not a step.
Events_drop(i) ==
    /\ observers[i].rx = "open"
    /\ observers' = [observers EXCEPT ![i].rx = "closed", ![i].queue = <<>>]
    /\ last' = Call("drop", "Ok", FALSE, 0)
    /\ UNCHANGED <<free_slots, state>>

Next ==
    \/ \E options \in ObserveConfigs : observe(options)
    \/ num_observers
    \/ poll_ready
    \/ \E evt \in Events : start_send(evt)
    \/ poll_flush
    \/ poll_close
    \/ \E i \in Held : Events_poll_next(i)
    \/ \E i \in Held : Events_close(i)
    \/ \E i \in Held : Events_drop(i)

Spec == Init /\ [][Next]_vars

\* The same registry with Unbounded queues deep enough to hold one of each event,
\* so that the order of two queued events shows.
DeepQueue == Cardinality(Events)

NextDeep ==
    \/ \E options \in ObserveConfigs : observe(options)
    \/ num_observers
    \/ poll_ready
    \/ \E evt \in Events : start_send_within(evt, DeepQueue)
    \/ poll_flush
    \/ poll_close
    \/ \E i \in Held : Events_poll_next(i)
    \/ \E i \in Held : Events_close(i)
    \/ \E i \in Held : Events_drop(i)

SpecDeep == Init /\ [][NextDeep]_vars

\* ---- properties ---------------------------------------------------------

\* Positions of observers (1-based); slot index i of the code is position i + 1.
Slots == 1..Len(observers)

\* How many times index idx occurs in a free list.
Occurrences(free, idx) == Cardinality({k \in 1..Len(free) : free[k] = idx})

\* A populated slot whose subscriber has neither closed nor dropped its Events.
Live(opt) == is_some(opt) /\ ~Sender_is_closed(opt)

\* C1: every index stored in free_slots refers to a slot that is currently empty,
\* and no index occurs more than once in free_slots.
C1_FreeSlotsEmptyAndDistinct ==
    \A k \in 1..Len(free_slots) :
        /\ free_slots[k] \in 0..(Len(observers) - 1)
        /\ ~is_some(observers[free_slots[k] + 1])
        /\ Occurrences(free_slots, free_slots[k]) = 1

\* Both slots were found disconnected by one dispatch and are recorded free.
C1_Witness ==
    /\ last.op = "start_send"
    /\ Len(free_slots) >= 2
    /\ \A i \in Slots : ~is_some(observers[i])

\* C2: once a disconnect has been detected (by dispatch, ready-check, drain-check
\* or count_live_subscribers) the slot is empty and its index is in free_slots
\* exactly once, until a subscribe reuses it: every empty slot is listed once.
C2_EmptySlotListedOnce ==
    \A i \in Slots :
        ~is_some(observers[i]) => Occurrences(free_slots, i - 1) = 1

\* C3 as claimed: in one dispatch on a Ready registry every live subscriber whose
\* filter accepts the event gets exactly one copy enqueued, every other slot nothing.
C3_EveryLiveAcceptingGetsOne ==
    [][(last'.op = "start_send" /\ last'.res = "Ok") =>
        \A i \in Slots :
            IF Live(observers[i]) /\ Sender_filter(observers[i], last'.evt)
            THEN /\ is_some(observers'[i])
                 /\ observers'[i].queue = Append(observers[i].queue, last'.evt)
            ELSE is_some(observers'[i]) => observers'[i].queue = observers[i].queue]_vars

\* C3 amended: in one dispatch on a Ready registry every live subscriber whose
\* filter accepts the event and whose channel is not full gets exactly one copy
\* enqueued; a live accepting subscriber whose channel is full gets none and its
\* slot is emptied; a subscriber whose filter rejects the event, or that has
\* disconnected, or an empty slot, has nothing enqueued.
C3_WriteReadyAcceptingGetsOne ==
    [][(last'.op = "start_send" /\ last'.res = "Ok") =>
        /\ Len(observers') = Len(observers)
        /\ \A i \in Slots :
            IF Live(observers[i]) /\ Sender_filter(observers[i], last'.evt)
            THEN IF Sender_is_full(observers[i])
                 THEN ~is_some(observers'[i])
                 ELSE /\ is_some(observers'[i])
                      /\ observers'[i].queue = Append(observers[i].queue, last'.evt)
            ELSE is_some(observers'[i]) => observers'[i].queue = observers[i].queue]_vars

\* `false` was dispatched: one subscriber holds it, one that only accepts `true`
\* holds nothing.
C3_Witness ==
    /\ last.op = "start_send" /\ last.res = "Ok" /\ last.evt = FALSE
    /\ \E i, j \in Slots :
        /\ Live(observers[i]) /\ observers[i].queue = <<FALSE>>
        /\ Live(observers[j]) /\ observers[j].filter = {TRUE}
        /\ observers[j].queue = <<>>

\* A slot dispatch removes: the subscriber disconnected, or accepts and is full.
Failing(opt, evt) ==
    is_some(opt) /\ (Sender_is_closed(opt) \/ (Sender_filter(opt, evt) /\ Sender_is_full(opt)))

\* A slot dispatch can deliver to: live, accepting, not full.
Deliverable(opt, evt) ==
    Live(opt) /\ Sender_filter(opt, evt) /\ ~Sender_is_full(opt)

\* C4: dispatch fails only when the registry is Closed, and then with Closed; on a
\* Ready registry it returns Ok, and a disconnected or failing subscriber keeps no
\* other subscriber (at a lower or higher index) from being sent the event.
C4_DispatchAbsorbsFailures ==
    [][last'.op = "start_send" =>
        /\ last'.res = (IF state = "Closed" THEN "Closed" ELSE "Ok")
        /\ state = "Ready" =>
            \A i, j \in Slots :
                (i # j /\ Failing(observers[i], last'.evt)
                       /\ Deliverable(observers[j], last'.evt))
                => /\ ~is_some(observers'[i])
                   /\ is_some(observers'[j])
                   /\ observers'[j].queue = Append(observers[j].queue, last'.evt)]_vars

\* Slot 0 was removed by a dispatch that still reached slot 1.
C4_Witness ==
    /\ last.op = "start_send" /\ last.res = "Ok"
    /\ Len(observers) >= 2
    /\ ~is_some(observers[1]) /\ free_slots = <<0>>
    /\ Live(observers[2]) /\ observers[2].queue = <<last.evt>>

\* C5: after a ready-check on a Ready registry: it returned ready and every
\* surviving sending half is write-ready, or it returned pending and some live
\* sending half is not write-ready (a Bounded(1) subscriber holding one unread
\* event); nothing else is returned.
C5_ReadyOnlyWhenAllReady ==
    (last.op = "poll_ready" /\ state = "Ready") =>
        \/ /\ last.res = "Ok"
           /\ \A i \in Slots :
                is_some(observers[i]) => Sender_poll_ready(observers[i]) = "Ok"
        \/ /\ last.res = "Pending"
           /\ \E i \in Slots :
                Live(observers[i]) /\ Sender_poll_ready(observers[i]) = "Pending"

\* Pending because of a Bounded(1) subscriber with one unread event, beside a
\* subscriber that is ready.
C5_Witness ==
    /\ last.op = "poll_ready" /\ last.res = "Pending"
    /\ \E i, j \in Slots :
        /\ Live(observers[i])
        /\ observers[i].channel = [kind |-> "Bounded", size |-> 1]
        /\ Len(observers[i].queue) = 1
        /\ Live(observers[j]) /\ Sender_poll_ready(observers[j]) = "Ok"

C7_CloseAllClosesEverySender ==
    [][/\ (last'.op = "poll_close" /\ state = "Ready") =>
            /\ last'.res = "Ok" /\ state' = "Closed"
            /\ \A i \in Slots :
                is_some(observers[i]) =>
                    (~is_some(observers'[i]) \/ observers'[i].tx = "closed")
       /\ (last'.op = "num_observers" /\ state = "Closed") =>
            /\ last'.n = 0
            /\ \A i \in Slots : ~is_some(observers'[i])]_vars

\* Two subscribers were live at close-all; the count after it found none.
C7_Witness ==
    /\ state = "Closed"
    /\ last.op = "num_observers" /\ last.n = 0
    /\ Len(free_slots) >= 2

\* The last call dispatched an event that the subscriber in slot i rejected.
JustRejected(i) ==
    /\ last.op = "start_send" /\ last.res = "Ok"
    /\ Live(observers[i]) /\ ~Sender_filter(observers[i], last.evt)

\* C8 as claimed: a subscriber that rejected an event receives every later
\* dispatched event its filter accepts (here: the next one, while still live).
C8_LaterAcceptedAlwaysReceived ==
    [][\A i \in Slots :
        (JustRejected(i) /\ last'.op = "start_send" /\ last'.res = "Ok"
            /\ Sender_filter(observers[i], last'.evt))
        => /\ is_some(observers'[i])
           /\ observers'[i].queue = Append(observers[i].queue, last'.evt)]_vars

\* C8 amended: a dispatch leaves a live subscriber whose filter rejects the event
\* exactly as it was (nothing enqueued, same sender in the same slot), and a later
\* dispatched event that its filter accepts is enqueued for it provided it is
\* still live and its channel is not full at that dispatch.
C8_RejectedStaysSubscribed ==
    [][(last'.op = "start_send" /\ last'.res = "Ok") =>
        /\ \A i \in Slots :
            (Live(observers[i]) /\ ~Sender_filter(observers[i], last'.evt))
            => observers'[i] = observers[i]
        /\ \A i \in Slots :
            (JustRejected(i)
                /\ Sender_filter(observers[i], last'.evt)
                /\ ~Sender_is_full(observers[i]))
            => /\ is_some(observers'[i])
               /\ observers'[i].queue = Append(observers[i].queue, last'.evt)]_vars

\* `false` was just dispatched; a subscriber that only accepts `true` is still in
\* its slot and holds the `true` it was sent, not the `false`.
C8_Witness ==
    /\ last.op = "start_send" /\ last.res = "Ok" /\ last.evt = FALSE
    /\ \E i \in Slots :
        /\ Live(observers[i]) /\ observers[i].filter = {TRUE}
        /\ observers[i].queue = <<TRUE>>

\* C9: a successful observe stores the new sender at the index pushed last onto
\* free_slots when there is one, removing that index and leaving storage_len
\* unchanged; it appends a slot, growing storage_len by one, only when free_slots
\* is empty.
C9_ReuseLastFreed ==
    [][(last'.op = "observe" /\ last'.res = "Ok") =>
        IF free_slots # <<>>
        THEN LET i == free_slots[Len(free_slots)] IN
             /\ Len(observers') = Len(observers)
             /\ is_some(observers'[i + 1])
             /\ free_slots' = SubSeq(free_slots, 1, Len(free_slots) - 1)
             /\ \A j \in Slots : j # i + 1 => observers'[j] = observers[j]
        ELSE /\ Len(observers') = Len(observers) + 1
             /\ is_some(observers'[Len(observers')])
             /\ free_slots' = <<>>
             /\ \A j \in Slots : observers'[j] = observers[j]]_vars

\* Indices 0 and 1 were free, in that order; observe took 1 and left 0.
C9_Witness ==
    /\ last.op = "observe" /\ last.res = "Ok"
    /\ Len(observers) = 2
    /\ free_slots = <<0>>
    /\ ~is_some(observers[1]) /\ is_some(observers[2])

\* C10: a populated slot keeps its subscription until the registry empties it: no
\* step shortens observers, observe leaves every populated slot untouched, a slot
\* that stays populated keeps its channel and filter, and only observe fills a slot.
C10_SlotIndexStable ==
    [][\/ observers' = observers
       \/ /\ Len(observers') >= Len(observers)
          /\ \A i \in Slots :
               is_some(observers[i]) =>
                   /\ last'.op = "observe" => observers'[i] = observers[i]
                   /\ is_some(observers'[i]) =>
                       /\ observers'[i].channel = observers[i].channel
                       /\ observers'[i].filter = observers[i].filter
          /\ \A i \in 1..Len(observers') :
               (is_some(observers'[i])
                   /\ (i > Len(observers) \/ ~is_some(observers[i])))
               => (last'.op = "observe" /\ last'.res = "Ok")]_vars

\* A freed slot was reused while the other subscription, with its queued event,
\* stayed where it was.
C10_Witness ==
    /\ last.op = "observe" /\ last.res = "Ok"
    /\ Len(observers) = 2 /\ free_slots = <<>>
    /\ \E i, j \in Slots :
        /\ is_some(observers[i]) /\ observers[i].queue # <<>>
        /\ is_some(observers[j]) /\ observers[j].queue = <<>>

\* What count_live_subscribers does to the slots: a populated slot whose sender
\* reports closed is emptied and its index recorded free, every other slot is kept.
NumObserversFrees ==
    /\ last'.res = "Ok"
    /\ storage_len' = storage_len
    /\ \A i \in Slots :
        IF is_some(observers[i]) /\ Sender_is_closed(observers[i])
        THEN ~is_some(observers'[i]) /\ Occurrences(free_slots', i - 1) = 1
        ELSE observers'[i] = observers[i]

C12_StorageNeverShrinks ==
    [][/\ storage_len' >= storage_len
       /\ storage_len' > storage_len =>
            /\ last'.op = "observe"
            /\ storage_len' = storage_len + 1
            /\ is_some(observers'[storage_len'])]_vars

\* Both subscriptions were found closed by a count: the slots are cleared in
\* place and the storage still has its two slots.
C12_Witness ==
    /\ last.op = "num_observers"
    /\ last.n = 0
    /\ storage_len = 2
    /\ \A i \in Slots : ~is_some(observers[i])

\* C13: on a Ready registry subscribe with Bounded(0) fails with MinChannelSizeOne;
\* subscribe with Bounded(n), n >= 1, or with Unbounded succeeds and the sender of
\* the new channel is stored in a slot that was empty or is new.
C13_OnlyBoundedZeroRefused ==
    [][(state = "Ready" /\ last'.op = "observe") =>
        \A options \in ObserveConfigs :
            observe(options) =>
                IF options.channel.kind = "Bounded" /\ options.channel.size = 0
                THEN last'.res = "MinChannelSizeOne"
                ELSE /\ last'.res = "Ok"
                     /\ \E i \in 1..storage_len' :
                            /\ observers'[i] = Events_new(options)
                            /\ i \in Slots => ~is_some(observers[i])]_vars

\* Bounded(0) has just been refused by a Ready registry that holds a Bounded
\* subscription of size one or more.
C13_Witness ==
    /\ last.op = "observe"
    /\ last.res = "MinChannelSizeOne"
    /\ state = "Ready"
    /\ \E i \in Slots :
        /\ is_some(observers[i])
        /\ observers[i].channel.kind = "Bounded"
        /\ observers[i].channel.size >= 1

\* C14: a subscribe that fails, with Closed or with MinChannelSizeOne, leaves
\* observers, free_slots and state as they were; no sender is stored.
C14_FailedObserveChangesNothing ==
    [][(last'.op = "observe" /\ last'.res # "Ok") =>
        UNCHANGED <<observers, free_slots, state>>]_vars

\* A refused subscribe on a registry that has two slots and a free index to reuse.
C14_Witness ==
    /\ last.op = "observe"
    /\ last.res \in {"Closed", "MinChannelSizeOne"}
    /\ storage_len = 2
    /\ free_slots # <<>>

\* C15: close-all on a registry that is already Closed succeeds at once and
\* changes neither observers, free_slots nor state.
C15_CloseAllIdempotent ==
    [][(state = "Closed" /\ last'.op = "poll_close") =>
        /\ last'.res = "Ok"
        /\ UNCHANGED <<observers, free_slots, state>>]_vars

\* A close-all that asked no sender to close although senders are stored: the
\* registry was Closed already.
C15_Witness ==
    /\ state = "Closed"
    /\ last.op = "poll_close"
    /\ last.n = 0
    /\ Held # {}

\* C16: ready-check on a Ready registry never returns an error: it returns Pending
\* when a live sender is full and Ok otherwise, and every populated slot whose
\* sender reports disconnected before the first full one is emptied, the others
\* being left as they are.
C16_DisconnectNeverFailsReadyCheck ==
    [][(state = "Ready" /\ last'.op = "poll_ready") =>
        LET full == {i \in Slots : Live(observers[i]) /\ Sender_is_full(observers[i])}
            polled(i) == \A j \in full : i <= j
        IN /\ last'.res = IF full = {} THEN "Ok" ELSE "Pending"
           /\ storage_len' = storage_len
           /\ \A i \in Slots :
                IF is_some(observers[i]) /\ Sender_is_closed(observers[i]) /\ polled(i)
                THEN ~is_some(observers'[i])
                ELSE observers'[i] = observers[i]]_vars

\* The first of two handles was dropped: ready-check emptied slot 0, went on to
\* the live sender in slot 1 and returned Ok.
C16_Witness ==
    /\ last.op = "poll_ready"
    /\ last.res = "Ok"
    /\ storage_len = 2
    /\ ~is_some(observers[1])
    /\ Live(observers[2])
    /\ free_slots = <<>>

\* C17: drain-check on a Ready registry polls every populated slot: it returns
\* Pending exactly when some populated slot reports still draining and Ok
\* otherwise, and every populated slot that reports an error, before or after a
\* pending or failed one, is emptied and its index recorded free once; all other
\* slots are left as they are.
C17_DrainCheckPollsEverySlot ==
    [][(state = "Ready" /\ last'.op = "poll_flush") =>
        /\ last'.res = IF \E i \in Held : Sender_poll_flush(observers[i]) = "Pending"
                       THEN "Pending" ELSE "Ok"
        /\ storage_len' = storage_len
        /\ \A i \in Slots :
            IF is_some(observers[i]) /\ Sender_poll_flush(observers[i]) = "Err"
            THEN ~is_some(observers'[i]) /\ Occurrences(free_slots', i - 1) = 1
            ELSE observers'[i] = observers[i]]_vars

\* Drain-check returned Pending for the full sender in slot 0, and slot 1 behind
\* it is empty and recorded free.
C17_Witness ==
    /\ last.op = "poll_flush"
    /\ last.res = "Pending"
    /\ storage_len = 2
    /\ Live(observers[1]) /\ Sender_is_full(observers[1])
    /\ ~is_some(observers[2])
    /\ free_slots = <<1>>

\* C18: per-subscriber FIFO. A new subscription starts with nothing queued; after
\* that every step leaves a subscription's queue alone, or appends the dispatched
\* event behind what is queued (dispatch), or hands its oldest event to the reader
\* and keeps the rest in order (read), or discards it (the handle is closed or
\* dropped). So what a subscriber reads is a subsequence of the events dispatched
\* while it was subscribed, in dispatch order.
C18_PerSubscriberFifo ==
    [][\/ observers' = observers
       \/ /\ \A i \in 1..storage_len' :
               is_some(observers'[i]) =>
                   IF i \in Slots /\ is_some(observers[i])
                   THEN LET q == observers[i].queue
                            r == observers'[i].queue
                        IN \/ r = q
                           \/ last'.op = "start_send" /\ r = Append(q, last'.evt)
                           \/ last'.op = "poll_next" /\ q # <<>>
                                /\ last'.evt = Head(q) /\ r = Tail(q)
                           \/ last'.op \in {"close", "drop"} /\ r = <<>>
                   ELSE last'.op = "observe" /\ observers'[i].queue = <<>>
          /\ last'.op = "poll_next" =>
               \E i \in Held :
                   /\ observers[i].queue # <<>>
                   /\ last'.evt = Head(observers[i].queue)
                   /\ observers' = [observers EXCEPT ![i].queue = Tail(@)]]_vars

\* TRUE has just been read from a subscription that still holds the FALSE
\* dispatched after it.
C18_Witness ==
    /\ last.op = "poll_next"
    /\ last.evt = TRUE
    /\ \E i \in Held :
        /\ observers[i].queue = <<FALSE>>
        /\ observers[i].filter = Events

\* C19: closing or dropping an Events changes nothing in the registry: free_slots,
\* state and storage_len are unchanged, every slot stays populated or empty as it
\* was and keeps its sender's channel, filter and sending half; a read changes no
\* more. A populated slot is emptied only by an operation of the registry.
C19_HandleStepsLeaveRegistry ==
    [][last'.op \in {"close", "drop", "poll_next"} =>
        /\ UNCHANGED <<free_slots, state>>
        /\ storage_len' = storage_len
        /\ \A i \in Slots :
            IF is_some(observers[i])
            THEN /\ is_some(observers'[i])
                 /\ observers'[i].channel = observers[i].channel
                 /\ observers'[i].filter = observers[i].filter
                 /\ observers'[i].tx = observers[i].tx
            ELSE ~is_some(observers'[i])]_vars

\* A handle has just been dropped; its slot is still populated and nothing is
\* recorded free.
C19_Witness ==
    /\ last.op = "drop"
    /\ state = "Ready"
    /\ free_slots = <<>>
    /\ \E i \in Held : observers[i].rx = "closed"

\* C20: a dispatch on a Ready registry returns Ok, and every live subscriber whose
\* filter accepts the event and whose channel is full is disconnected by it: its
\* slot is emptied, with the event not enqueued, and its index is recorded free
\* once. The slot is filled again only by a subscribe.
C20_FullSubscriberIsDisconnected ==
    [][/\ (state = "Ready" /\ last'.op = "start_send") =>
            /\ last'.res = "Ok"
            /\ \A i \in Slots :
                (/\ Live(observers[i])
                 /\ Sender_filter(observers[i], last'.evt)
                 /\ Sender_is_full(observers[i]))
                => /\ ~is_some(observers'[i])
                   /\ Occurrences(free_slots', i - 1) = 1
       /\ \A i \in Slots :
            (~is_some(observers[i]) /\ is_some(observers'[i]))
            => last'.op = "observe" /\ observers'[i].queue = <<>>]_vars

\* The only subscriber refused the event of the last dispatch: its slot is empty
\* and recorded free, and the dispatch returned Ok.
C20_Witness ==
    /\ last.op = "start_send"
    /\ last.res = "Ok"
    /\ last.n = 1
    /\ storage_len = 1
    /\ ~is_some(observers[1])
    /\ free_slots = <<0>>

\* C21: a dispatch made while readiness stands (a ready-check returned ready, and
\* since then no handle was closed or dropped and no other operation of the
\* registry ran; subscribers may have read) empties no slot: every slot populated
\* before it is populated after it, and free_slots is unchanged.
C21_DispatchAfterReadyEmptiesNothing ==
    [][(Established /\ last'.op = "start_send") =>
        /\ last'.res = "Ok"
        /\ free_slots' = free_slots
        /\ storage_len' = storage_len
        /\ \A i \in Slots : is_some(observers[i]) => is_some(observers'[i])]_vars

\* A dispatch made while readiness stood has filled the
\* Bounded(1) channel of a subscriber, which is still in its slot.
C21_Witness ==
    /\ last.op = "start_send"
    /\ last.ready
    /\ \E i \in Held :
        /\ observers[i].channel.kind = "Bounded"
        /\ observers[i].queue = <<last.evt>>
        /\ Sender_is_full(observers[i])

====
